---- MODULE Spec2Model ----
(***************************************************************************)
(* Result summary of superbench's analyzer:                                *)
(*   superbench/analyzer/result_summary.py  (ResultSummary)                *)
(*   superbench/analyzer/file_handler.py    (read_raw_data, writers)       *)
(*                                                                         *)
(* A Python str is a sequence of one-character strings, so that the        *)
(* regular expressions, startswith, strip and sorted of the source act on  *)
(* characters.  A dict is a sequence of records in insertion order.        *)
(***************************************************************************)
EXTENDS Integers, Sequences, FiniteSets, TLC

VARIABLES
    file,           \* the raw data jsonl file given to read_raw_data
    doc,            \* the rule document given to run (rules['superbench']['rules'])
    pc,             \* position of run
    pos,            \* loop index of the loop run is in (lines read, rules parsed, rules generated)
    raw_data_df,    \* self._raw_data_df / read_raw_data's raw_data_df
    sb_rules,       \* self._sb_rules
    summary,        \* summary dict of _generate_summary
    aggregate_calls,\* the calls of data_analysis.aggregate made so far
    parse_result,   \* what _parse_rules returned to run
    writer_calls,   \* the calls of file_handler.output_summary_in_* made so far
    log,            \* the logger.error messages so far (by origin)
    ws,             \* merge_column_in_excel's worksheet: the values of the cells of the column
    dict_from,      \* merge_column_in_excel's dict_from
    merged_cells,   \* the ranges given to ws.merge_cells so far
    alignment       \* the rows whose cell of the column was given aligncenter

vars == <<file, doc, pc, pos, raw_data_df, sb_rules, parse_result, summary, aggregate_calls,
          writer_calls, log, ws, dict_from, merged_cells, alignment>>

----------------------------------------------------------------------------
(* Bounds of the inputs.                                                   *)
MaxRules == 2
MaxStatistics == 2
MaxPatternLen == 4
MaxLines == 2
MaxRow == 4

----------------------------------------------------------------------------
(* Python str helpers.                                                     *)

\* ord() of the characters the model uses
Ord(c) ==
    CASE c = "(" -> 40 [] c = ")" -> 41 [] c = "0" -> 48 [] c = "1" -> 49
      [] c = "5" -> 53 [] c = ":" -> 58 [] c = "\\" -> 92
      [] c = "a" -> 97 [] c = "b" -> 98 [] c = "c" -> 99 [] c = "d" -> 100
      [] c = "e" -> 101 [] c = "i" -> 105 [] c = "l" -> 108 [] c = "m" -> 109
      [] c = "n" -> 110 [] c = "o" -> 111 [] c = "p" -> 112 [] c = "r" -> 114
      [] c = "s" -> 115 [] c = "t" -> 116 [] c = "u" -> 117 [] c = "x" -> 120
      [] OTHER -> 0

Digits == {"0", "1", "5"}

RECURSIVE StrLess(_, _)
\* s < t for two str (lexicographic by code point), as sorted() compares
StrLess(s, t) ==
    IF t = <<>> THEN FALSE
    ELSE IF s = <<>> THEN TRUE
    ELSE IF Head(s) = Head(t) THEN StrLess(Tail(s), Tail(t))
    ELSE Ord(Head(s)) < Ord(Head(t))

RECURSIVE Sorted(_)
\* sorted(S) of a set of str
Sorted(S) ==
    IF S = {} THEN <<>>
    ELSE LET m == CHOOSE x \in S : \A y \in S \ {x} : StrLess(x, y)
         IN  <<m>> \o Sorted(S \ {m})

\* sub in s
Contains(s, sub) ==
    \E i \in 0..(Len(s) - Len(sub)) : SubSeq(s, i + 1, i + Len(sub)) = sub

RECURSIVE StripChar(_, _)
\* s.strip(c): c removed from both ends
StripChar(s, c) ==
    IF s = <<>> THEN s
    ELSE IF Head(s) = c THEN StripChar(Tail(s), c)
    ELSE IF s[Len(s)] = c THEN StripChar(SubSeq(s, 1, Len(s) - 1), c)
    ELSE s

\* the elements of a sequence
Range(s) == {s[i] : i \in DOMAIN s}

\* the sequences over S of length at most n
SeqUpTo(S, n) == UNION {[1..k -> S] : k \in 0..n}

\* the strings used as names
sNode == <<"n", "o", "d", "e">>
sMean == <<"m", "e", "a", "n">>
sMax == <<"m", "a", "x">>
sMin == <<"m", "i", "n">>
sStd == <<"s", "t", "d">>
sCount == <<"c", "o", "u", "n", "t">>
sPercentile == <<"p", "e", "r", "c", "e", "n", "t", "i", "l", "e">>

----------------------------------------------------------------------------
(* The raw data file and the DataFrame.                                    *)
(*                                                                         *)
(* A line of the jsonl file is a JSON object or text jsonlines cannot      *)
(* parse.  An object maps keys to cells; a cell is <<v>> for a number v    *)
(* and <<>> for null / NaN.  A DataFrame has an index (one label per row), *)
(* a set of columns and one row per label, each row a function from the    *)
(* columns to cells.                                                       *)

cA0 == <<"a", ":", "0">>
cA1 == <<"a", ":", "1">>
cB == <<"b">>

NaN == <<>>

\* pd.DataFrame()
EmptyDataFrame == [index |-> <<>>, columns |-> {}, rows |-> <<>>]

\* raw_data_df.append(single_node_summary, ignore_index=True)
DfAppend(df, obj) ==
    LET cols == df.columns \cup DOMAIN obj
        widen(r) == [c \in cols |-> IF c \in DOMAIN r THEN r[c] ELSE NaN]
        n == Len(df.rows)
    IN  [index |-> [i \in 1..(n + 1) |-> <<i - 1>>],
         columns |-> cols,
         rows |-> [i \in 1..(n + 1) |-> IF i <= n THEN widen(df.rows[i]) ELSE widen(obj)]]

\* raw_data_df.rename(raw_data_df['node']): each label becomes the row's node
DfRenameByNode(df) ==
    [df EXCEPT !.index = [i \in DOMAIN df.rows |-> df.rows[i][sNode]]]

\* raw_data_df.drop(columns=['node'])
DfDropNode(df) ==
    LET cols == df.columns \ {sNode}
    IN  [df EXCEPT !.columns = cols,
                   !.rows = [i \in DOMAIN df.rows |-> [c \in cols |-> df.rows[i][c]]]]

\* read_raw_data: p.is_file() fails
ReadOpen ==
    /\ pc = "read"
    /\ IF ~file.exists
       THEN /\ log' = Append(log, "invalid raw data path")
            /\ pc' = "preprocess"
            /\ pos' = pos
       ELSE /\ pc' = "read_loop"
            /\ pos' = 1
            /\ log' = log
    /\ raw_data_df' = EmptyDataFrame
    /\ UNCHANGED <<ws, dict_from, merged_cells, alignment>>
    /\ UNCHANGED <<file, doc, sb_rules, parse_result, summary, aggregate_calls, writer_calls>>

\* read_raw_data: one iteration of the loop over jsonlines.Reader(f); a line
\* that cannot be parsed raises, and the except clause returns raw_data_df as it is
ReadLine ==
    /\ pc = "read_loop"
    /\ pos <= Len(file.lines)
    /\ IF file.lines[pos].parsable
       THEN /\ raw_data_df' = DfAppend(raw_data_df, file.lines[pos].obj)
            /\ pos' = pos + 1
            /\ UNCHANGED <<pc, log>>
       ELSE /\ log' = Append(log, "invalid raw data format")
            /\ pc' = "preprocess"
            /\ UNCHANGED <<raw_data_df, pos>>
    /\ UNCHANGED <<ws, dict_from, merged_cells, alignment>>
    /\ UNCHANGED <<file, doc, sb_rules, parse_result, summary, aggregate_calls, writer_calls>>

\* read_raw_data: after the loop, node becomes the index and is dropped from
\* the columns; without a node column raw_data_df['node'] raises
ReadPromote ==
    /\ pc = "read_loop"
    /\ pos > Len(file.lines)
    /\ IF sNode \in raw_data_df.columns
       THEN /\ raw_data_df' = DfDropNode(DfRenameByNode(raw_data_df))
            /\ log' = log
       ELSE /\ log' = Append(log, "invalid raw data format")
            /\ raw_data_df' = raw_data_df
    /\ pc' = "preprocess"
    /\ UNCHANGED <<ws, dict_from, merged_cells, alignment>>
    /\ UNCHANGED <<file, doc, pos, sb_rules, parse_result, summary, aggregate_calls, writer_calls>>

----------------------------------------------------------------------------
(* The rule document.                                                      *)
(*                                                                         *)
(* A rule is a dict: keys is the set of keys it has.  A value of the YAML  *)
(* document is tagged with its Python type: "none" (null and every other   *)
(* type the checks do not name), "bool", "str", "list".                    *)

VNone == [tag |-> "none", b |-> FALSE, s |-> <<>>, l |-> <<>>]
VBool(b) == [tag |-> "bool", b |-> b, s |-> <<>>, l |-> <<>>]
VStr(s) == [tag |-> "str", b |-> FALSE, s |-> s, l |-> <<>>]
VList(l) == [tag |-> "list", b |-> FALSE, s |-> <<>>, l |-> l]

\* SummaryType: the values of the enumeration of statistics
SummaryTypeValues == {sMean, sPercentile, sMin, sMax, sStd, sCount}

\* re.fullmatch(r'p\d\d?', s)
FullMatchPercentile(s) ==
    /\ Len(s) \in {2, 3}
    /\ s[1] = "p"
    /\ \A i \in 2..Len(s) : s[i] \in Digits

\* re.search(r'\(.*\)', s): an opening parenthesis with a closing one after it
SearchParentheses(s) ==
    \E i, j \in DOMAIN s : i < j /\ s[i] = "(" /\ s[j] = ")"

\* _check_rules, the loop body of the statistics check: a value that is no str
\* makes re.fullmatch raise, a str that is no SummaryType makes SummaryType raise
StatisticOk(function) ==
    /\ function.tag = "str"
    /\ (FullMatchPercentile(function.s) \/ function.s \in SummaryTypeValues)

\* _check_rules: convert single statistic str to list
NormalizeStatistics(statistics) ==
    IF statistics.tag # "list" THEN <<statistics>> ELSE statistics.l

\* _check_rules: the aggregate check; a value that is neither bool nor str
\* makes re.search raise
AggregateOk(rule) ==
    \/ "aggregate" \notin rule.keys
    \/ rule.aggregate.tag = "bool"
    \/ rule.aggregate.tag = "str" /\ SearchParentheses(rule.aggregate.s)

\* RuleBase._check_rules (super): a rule needs categories
BaseCheckRules(rule) == "categories" \in rule.keys

\* _check_rules: whether it returns (TRUE) or raises (FALSE)
CheckRulesOk(rule) ==
    /\ BaseCheckRules(rule)
    /\ "metrics" \in rule.keys
    /\ "statistics" \in rule.keys
    /\ \A i \in DOMAIN NormalizeStatistics(rule.statistics) :
           StatisticOk(NormalizeStatistics(rule.statistics)[i])
    /\ AggregateOk(rule)

\* _check_rules: the rule it returns
CheckRules(rule) ==
    [rule EXCEPT !.statistics = VList(NormalizeStatistics(rule.statistics))]

\* _parse_rules: the aggregate of the rule stored in self._sb_rules
ResolvedAggregate(rule) ==
    IF "aggregate" \in rule.keys THEN rule.aggregate ELSE VBool(FALSE)

\* RuleBase._get_metrics: the columns of the raw data a rule's metrics match
GetMetrics(rule, columns) ==
    {c \in columns : \E i \in DOMAIN rule.metrics : Contains(c, rule.metrics[i])}

\* _parse_rules: the entry of self._sb_rules for a checked rule
SbRule(name, rule, columns) ==
    [name |-> name,
     categories |-> rule.categories,
     metrics |-> GetMetrics(rule, columns),
     statistics |-> rule.statistics.l,
     aggregate |-> ResolvedAggregate(rule)]

\* RuleBase.preprocess: the raw data is read, then the rule file
Preprocess ==
    /\ pc = "preprocess"
    /\ pc' = "parse_begin"
    /\ UNCHANGED <<ws, dict_from, merged_cells, alignment>>
    /\ UNCHANGED <<file, doc, pos, raw_data_df, sb_rules, parse_result, summary,
                   aggregate_calls, writer_calls, log>>

\* RuleBase._get_metrics: a rule that matches no column is an error
GetMetricsOk(stored) == stored.metrics # {}

\* an except clause that returns True
ExceptReturn_True == TRUE

\* _parse_rules: what its except clause returns
ExceptReturn == FALSE

\* _parse_rules, before the loop
ParseRulesBegin ==
    /\ pc = "parse_begin"
    /\ IF ~doc.present
       THEN /\ log' = Append(log, "get rules failed")
            /\ parse_result' = FALSE
            /\ pc' = "parse_returned"
            /\ UNCHANGED <<pos, sb_rules>>
       ELSE /\ sb_rules' = <<>>
            /\ pos' = 1
            /\ pc' = "parse"
            /\ UNCHANGED <<log, parse_result>>
    /\ UNCHANGED <<ws, dict_from, merged_cells, alignment>>
    /\ UNCHANGED <<file, doc, raw_data_df, summary, aggregate_calls, writer_calls>>

\* _parse_rules, one iteration of the loop over benchmark_rules; an exception
\* of _check_rules or _get_metrics is caught, and False is returned
ParseRule ==
    /\ pc = "parse"
    /\ pos <= Len(doc.rules)
    /\ LET rule == doc.rules[pos]
           stored == SbRule(pos, CheckRules(rule), raw_data_df.columns)
       IN  IF ~CheckRulesOk(rule)
           THEN /\ log' = Append(log, "parse rules failed")
                /\ parse_result' = ExceptReturn
                /\ pc' = "parse_returned"
                /\ UNCHANGED <<pos, sb_rules>>
           ELSE IF ~GetMetricsOk(stored)
           THEN /\ log' = Append(log, "parse rules failed")
                /\ parse_result' = ExceptReturn
                /\ pc' = "parse_returned"
                /\ sb_rules' = Append(sb_rules, stored)
                /\ pos' = pos
           ELSE /\ sb_rules' = Append(sb_rules, stored)
                /\ pos' = pos + 1
                /\ UNCHANGED <<pc, log, parse_result>>
    /\ UNCHANGED <<ws, dict_from, merged_cells, alignment>>
    /\ UNCHANGED <<file, doc, raw_data_df, summary, aggregate_calls, writer_calls>>

\* _parse_rules returns True after the loop
ParseRulesReturn ==
    /\ pc = "parse"
    /\ pos > Len(doc.rules)
    /\ parse_result' = TRUE
    /\ pc' = "parse_returned"
    /\ UNCHANGED <<ws, dict_from, merged_cells, alignment>>
    /\ UNCHANGED <<file, doc, pos, raw_data_df, sb_rules, summary, aggregate_calls,
                   writer_calls, log>>

\* a run that goes on whatever _parse_rules returned
RunGoesOn_Always(result) == TRUE

\* run: `if not self._parse_rules(rules): return`
RunGoesOn(result) == result

\* run, after _parse_rules; _generate_summary begins with an empty summary
RunAfterParse ==
    /\ pc = "parse_returned"
    /\ IF RunGoesOn(parse_result)
       THEN /\ pc' = "generate"
            /\ pos' = 1
            /\ summary' = <<>>
       ELSE /\ pc' = "returned"
            /\ UNCHANGED <<pos, summary>>
    /\ UNCHANGED <<ws, dict_from, merged_cells, alignment>>
    /\ UNCHANGED <<file, doc, raw_data_df, sb_rules, parse_result, aggregate_calls,
                   writer_calls, log>>

----------------------------------------------------------------------------
(* Regular expressions of the aggregate patterns (Python's re).  The       *)
(* patterns of the model are made of parentheses, backslashes and letters: *)
(* a backslash escapes the next character, a parenthesis that is not       *)
(* escaped opens or closes a group, and everything else is literal.        *)

\* the character \x stands for: \( \) \\ are the character itself, \a is BEL
Escaped(c) == IF c = "a" THEN "BEL" ELSE c

PatternStart ==
    [valid |-> TRUE, literal |-> <<>>, open |-> <<>>, groups |-> 0, from |-> 0, to |-> 0]

RECURSIVE ScanPattern(_, _, _)
\* re.compile(p) from character i on: valid is whether p compiles, literal the
\* text it matches, groups the number of its capture groups, and
\* literal[from+1..to] the text of group 1
ScanPattern(p, i, st) ==
    IF i > Len(p) THEN [st EXCEPT !.valid = st.valid /\ st.open = <<>>]
    ELSE IF p[i] = "\\" THEN
        IF i = Len(p) THEN [st EXCEPT !.valid = FALSE]
        ELSE ScanPattern(p, i + 2, [st EXCEPT !.literal = Append(@, Escaped(p[i + 1]))])
    ELSE IF p[i] = "(" THEN
        ScanPattern(p, i + 1,
            [st EXCEPT !.open = Append(@, st.groups + 1),
                       !.groups = @ + 1,
                       !.from = IF st.groups = 0 THEN Len(st.literal) ELSE @])
    ELSE IF p[i] = ")" THEN
        IF st.open = <<>> THEN [st EXCEPT !.valid = FALSE]
        ELSE ScanPattern(p, i + 1,
            [st EXCEPT !.open = SubSeq(@, 1, Len(@) - 1),
                       !.to = IF st.open[Len(st.open)] = 1 THEN Len(st.literal) ELSE @])
    ELSE ScanPattern(p, i + 1, [st EXCEPT !.literal = Append(@, p[i])])

Compile(p) == ScanPattern(p, 1, PatternStart)

\* the pattern compiles and has a capture group: match.group(1) exists
HasCaptureGroup(p) == Compile(p).valid /\ Compile(p).groups >= 1

\* match.group(1) of a match of p
Group1(p) == SubSeq(Compile(p).literal, Compile(p).from + 1, Compile(p).to)

----------------------------------------------------------------------------
(* data_analysis.aggregate.                                                *)

\* df[metrics]
Project(df, metrics) ==
    [df EXCEPT !.columns = metrics,
               !.rows = [i \in DOMAIN df.rows |-> [c \in metrics |-> df.rows[i][c]]]]

\* a column name without its rank: the text before a trailing ":<digits>"
RankKey(c) ==
    IF \E i \in 1..(Len(c) - 1) :
           /\ c[i] = ":"
           /\ \A j \in (i + 1)..Len(c) : c[j] \in Digits
    THEN LET i == CHOOSE k \in 1..(Len(c) - 1) :
                     c[k] = ":" /\ \A j \in (k + 1)..Len(c) : c[j] \in Digits
         IN  SubSeq(c, 1, i - 1)
    ELSE c

\* the group of a column under a pattern: the text its group 1 captures when
\* the pattern is found in the name, the name itself when it is not
PatternKey(p, c) ==
    IF Contains(c, Compile(p).literal) THEN Group1(p) ELSE c

RECURSIVE JoinCells(_, _)
\* the cells of one row in the columns cs (a sequence), one after the other
JoinCells(row, cs) ==
    IF cs = <<>> THEN <<>> ELSE row[Head(cs)] \o JoinCells(row, Tail(cs))

\* the columns of a group become one column; a cell of it holds the numbers
\* of the group's cells, which stand for their mean
GroupColumns(df, key) ==
    LET cols == {key[c] : c \in df.columns}
        members(k) == Sorted({c \in df.columns : key[c] = k})
    IN  [df EXCEPT !.columns = cols,
                   !.rows = [i \in DOMAIN df.rows |->
                                [k \in cols |-> JoinCells(df.rows[i], members(k))]]]

\* aggregate(df): by rank
AggregateRank(df) == GroupColumns(df, [c \in df.columns |-> RankKey(c)])

\* aggregate(df, pattern) raises for a pattern without a capture group
AggregatePatternOk(pattern) == HasCaptureGroup(pattern)

\* aggregate(df, pattern)
AggregatePattern(df, pattern) ==
    GroupColumns(df, [c \in df.columns |-> PatternKey(pattern, c)])

----------------------------------------------------------------------------
(* SummaryOp: the reducers.  A value is the reducer applied to the numbers *)
(* of a column, NaN left out; it is kept as that application.              *)

\* the numbers of column c, row after row
ColumnData(df, c) ==
    LET cells == [i \in DOMAIN df.rows |-> df.rows[i][c]]
    IN  SelectSeq(cells, LAMBDA x : x # NaN)

\* rule_op(data_df_of_rule[, val]) for one column
Reduce(op, val, data) == [op |-> op, val |-> val, data |-> data, digits |-> 0]

\* a percentile of a column without a number is an error
ReduceOk(op, data) == ~(op = sPercentile /\ data = <<>>)

\* DataFrame.round(6) of one value
Round6(v) == [v EXCEPT !.digits = 6]

----------------------------------------------------------------------------
(* _generate_summary.                                                      *)

\* bool(value) of a resolved aggregate
Truthy(v) ==
    CASE v.tag = "bool" -> v.b
      [] v.tag = "str" -> v.s # <<>>
      [] v.tag = "list" -> v.l # <<>>
      [] OTHER -> FALSE

\* an aggregation that passes no pattern: every truthy aggregate is by rank
AggregateMode_RankOnly(aggregate) ==
    IF ~Truthy(aggregate) THEN "none" ELSE "rank"

\* _generate_summary: how a rule's data is aggregated: "none" (aggregate is
\* not called), "rank" (aggregate(df)) or "pattern" (aggregate(df, pattern))
AggregateMode(aggregate) ==
    IF ~Truthy(aggregate) THEN "none"
    ELSE IF aggregate.tag = "bool" /\ aggregate.b = TRUE THEN "rank"
    ELSE "pattern"

\* the call of data_analysis.aggregate for a rule, if any
AggregateCall(rule) ==
    CASE AggregateMode(rule.aggregate) = "none" -> <<>>
      [] AggregateMode(rule.aggregate) = "rank" ->
            <<[rule |-> rule.name, mode |-> "rank", pattern |-> <<>>]>>
      [] OTHER ->
            <<[rule |-> rule.name, mode |-> "pattern", pattern |-> rule.aggregate.s]>>

\* whether the aggregation of a rule returns (TRUE) or raises (FALSE)
AggregationOk(rule) ==
    AggregateMode(rule.aggregate) = "pattern" => AggregatePatternOk(rule.aggregate.s)

\* data_df_of_rule after the aggregation
Aggregated(rule, df) ==
    CASE AggregateMode(rule.aggregate) = "none" -> df
      [] AggregateMode(rule.aggregate) = "rank" -> AggregateRank(df)
      [] OTHER -> AggregatePattern(df, rule.aggregate.s)

\* int(s) is defined: s is a decimal number
IsInt(s) == s # <<>> /\ \A i \in DOMAIN s : s[i] \in Digits

RECURSIVE IntOf(_)
\* int(s)
IntOf(s) ==
    IF s = <<>> THEN 0 ELSE 10 * IntOf(SubSeq(s, 1, Len(s) - 1)) + (Ord(s[Len(s)]) - 48)

\* _generate_summary: the reducer of a statistic name and its parameter;
\* ok is FALSE when int() or SummaryType() raises
Dispatch(statistic_name) ==
    IF statistic_name # <<>> /\ Head(statistic_name) = "p"
    THEN IF IsInt(StripChar(statistic_name, "p"))
         THEN [ok |-> TRUE, op |-> sPercentile, val |-> IntOf(StripChar(statistic_name, "p"))]
         ELSE [ok |-> FALSE, op |-> sPercentile, val |-> 0]
    ELSE [ok |-> statistic_name \in SummaryTypeValues, op |-> statistic_name, val |-> 0]

\* a loop over the statistics that swallows every exception
StatisticsOk_Swallow(statistics, df) == TRUE

\* whether every statistic of the rule is computed without an exception
StatisticsOk(statistics, df) ==
    \A i \in DOMAIN statistics :
        /\ Dispatch(statistics[i].s).ok
        /\ \A c \in df.columns : ReduceOk(Dispatch(statistics[i].s).op, ColumnData(df, c))

RECURSIVE RowLabels(_, _)
\* the index of summary_df_of_rule: .loc[statistic_name] = ... adds a row for
\* a name that has none and overwrites the row of a name that has one
RowLabels(statistics, index) ==
    IF statistics = <<>> THEN index
    ELSE RowLabels(Tail(statistics),
                   IF \E i \in DOMAIN index : index[i] = Head(statistics).s
                   THEN index ELSE Append(index, Head(statistics).s))

\* summary_df_of_rule, rounded: columns are the sorted metrics, index the statistics
SummaryDfOfRule(statistics, df) ==
    [columns |-> Sorted(df.columns),
     index |-> RowLabels(statistics, <<>>),
     loc |-> [name \in {statistics[i].s : i \in DOMAIN statistics} |->
                [c \in df.columns |->
                    Round6(Reduce(Dispatch(name).op, Dispatch(name).val, ColumnData(df, c)))]]]

RECURSIVE FormatLines(_, _, _, _)
\* _format_summary_of_rule: the loops, from metric number m and statistic number k on
FormatLines(category, summary_df_of_rule, m, k) ==
    IF m > Len(summary_df_of_rule.columns) THEN <<>>
    ELSE IF k > Len(summary_df_of_rule.index)
         THEN FormatLines(category, summary_df_of_rule, m + 1, 1)
    ELSE LET metric == summary_df_of_rule.columns[m]
             statistic == summary_df_of_rule.index[k]
         IN  <<[category |-> category, metric |-> metric, statistic |-> statistic,
                value |-> summary_df_of_rule.loc[statistic][metric]]>>
             \o FormatLines(category, summary_df_of_rule, m, k + 1)

RECURSIVE FormatLinesByStatistic(_, _, _, _)
\* the loops nested the other way round: statistics outside, metrics inside
FormatLinesByStatistic(category, summary_df_of_rule, k, m) ==
    IF k > Len(summary_df_of_rule.index) THEN <<>>
    ELSE IF m > Len(summary_df_of_rule.columns)
         THEN FormatLinesByStatistic(category, summary_df_of_rule, k + 1, 1)
    ELSE LET metric == summary_df_of_rule.columns[m]
             statistic == summary_df_of_rule.index[k]
         IN  <<[category |-> category, metric |-> metric, statistic |-> statistic,
                value |-> summary_df_of_rule.loc[statistic][metric]]>>
             \o FormatLinesByStatistic(category, summary_df_of_rule, k, m + 1)

\* a _format_summary_of_rule that is statistic-major
FormatSummaryOfRule_StatisticMajor(category, summary_df_of_rule) ==
    FormatLinesByStatistic(category, summary_df_of_rule, 1, 1)

\* _format_summary_of_rule
FormatSummaryOfRule(category, summary_df_of_rule) ==
    FormatLines(category, summary_df_of_rule, 1, 1)

\* summary[category] = summary_lines_of_rule
StoreSummary(dict, category, lines) ==
    IF \E i \in DOMAIN dict : dict[i].category = category
    THEN [i \in DOMAIN dict |->
            IF dict[i].category = category THEN [dict[i] EXCEPT !.lines = lines] ELSE dict[i]]
    ELSE Append(dict, [category |-> category, lines |-> lines])

\* _generate_summary, one iteration of the loop over self._sb_rules; an
\* exception leaves _generate_summary and is caught by run, which logs it
GenerateRule ==
    /\ pc = "generate"
    /\ pos <= Len(sb_rules)
    /\ LET rule == sb_rules[pos]
           data_df_of_rule == Project(raw_data_df, rule.metrics)
       IN  /\ aggregate_calls' = aggregate_calls \o AggregateCall(rule)
           /\ IF AggregationOk(rule)
                 /\ StatisticsOk(rule.statistics, Aggregated(rule, data_df_of_rule))
              THEN /\ summary' = StoreSummary(summary, rule.categories,
                          FormatSummaryOfRule(rule.categories,
                              SummaryDfOfRule(rule.statistics,
                                              Aggregated(rule, data_df_of_rule))))
                   /\ pos' = pos + 1
                   /\ UNCHANGED <<pc, log>>
              ELSE /\ log' = Append(log, "run failed")
                   /\ pc' = "returned"
                   /\ UNCHANGED <<pos, summary>>
    /\ UNCHANGED <<ws, dict_from, merged_cells, alignment>>
    /\ UNCHANGED <<file, doc, raw_data_df, sb_rules, parse_result, writer_calls>>

\* _generate_summary returns the summary to run
GenerateReturn ==
    /\ pc = "generate"
    /\ pos > Len(sb_rules)
    /\ pc' = "output"
    /\ UNCHANGED <<ws, dict_from, merged_cells, alignment>>
    /\ UNCHANGED <<file, doc, pos, raw_data_df, sb_rules, parse_result, summary,
                   aggregate_calls, writer_calls, log>>

----------------------------------------------------------------------------
(* _merge_summary and the output of run.                                   *)

RECURSIVE MergeLines_SkipLast(_, _, _)
\* an inner loop over range(len(summary[category]) - 1)
MergeLines_SkipLast(summary_df, lines, i) ==
    IF i >= Len(lines) THEN summary_df
    ELSE MergeLines_SkipLast(Append(summary_df, lines[i]), lines, i + 1)

RECURSIVE MergeLines(_, _, _)
\* _merge_summary, the inner loop: summary_df.append([summary[category][i]])
\* for i in range(len(summary[category])), from i on
MergeLines(summary_df, lines, i) ==
    IF i > Len(lines) THEN summary_df
    ELSE MergeLines(Append(summary_df, lines[i]), lines, i + 1)

RECURSIVE MergeCategories(_, _, _)
\* _merge_summary, the outer loop over the categories, from category number k on
MergeCategories(summary_df, dict, k) ==
    IF k > Len(dict) THEN summary_df
    ELSE MergeCategories(MergeLines(summary_df, dict[k].lines, 1), dict, k + 1)

\* _merge_summary: the rows of the DataFrame it returns
MergeSummary(dict) == MergeCategories(<<>>, dict, 1)

OutputFormats == {"excel", "md", "html", "csv"}

\* run: the writer called for an output format, with its arguments
WriterCall(output_format, dict) ==
    CASE output_format = "excel" ->
            <<[writer |-> "output_summary_in_excel", summary |-> <<>>,
               summary_df |-> MergeSummary(dict)]>>
      [] output_format = "md" ->
            <<[writer |-> "output_summary_in_md", summary |-> dict, summary_df |-> <<>>]>>
      [] output_format = "html" ->
            <<[writer |-> "output_summary_in_html", summary |-> dict, summary_df |-> <<>>]>>
      [] OTHER -> <<>>

\* run: output result summary to file, in the output format run was given
Output ==
    /\ pc = "output"
    /\ \E output_format \in OutputFormats :
          /\ writer_calls' = writer_calls \o WriterCall(output_format, summary)
          /\ log' = IF WriterCall(output_format, summary) = <<>>
                    THEN Append(log, "unsupported output format") ELSE log
          /\ pc' = IF output_format = "excel" THEN "output_summary_in_excel" ELSE "returned"
    /\ UNCHANGED <<ws, dict_from, merged_cells, alignment>>
    /\ UNCHANGED <<file, doc, pos, raw_data_df, sb_rules, parse_result, summary,
                   aggregate_calls>>

----------------------------------------------------------------------------
(* output_summary_in_excel and merge_column_in_excel.                      *)
(*                                                                         *)
(* The worksheet is the column merge_column_in_excel is given: one cell    *)
(* value per row, rows 1..row.  A cell value is a str or an int; the       *)
(* merged ranges are recorded in the order of the ws.merge_cells calls.    *)

CellStr(s) == [kind |-> "str", s |-> s, n |-> 0]
CellInt(n) == [kind |-> "int", s |-> "", n |-> n]

\* str(value) of a cell value: a str is itself, an int (of one digit) its decimal
Str(value) ==
    IF value.kind = "int"
    THEN <<"0", "1", "2", "3", "4", "5", "6", "7", "8", "9">>[value.n + 1]
    ELSE value.s

\* merge_column_in_excel, the body of the first loop: a value not in dict_from
\* gets [row_index, row_index], a value in it has its end incremented
RecordRow(dict, value, row_index) ==
    IF \A i \in DOMAIN dict : dict[i].value # value
    THEN Append(dict, [value |-> value, start_row |-> row_index, end_row |-> row_index])
    ELSE [i \in DOMAIN dict |->
            IF dict[i].value = value
            THEN [dict[i] EXCEPT !.end_row = dict[i].end_row + 1] ELSE dict[i]]

\* summary.to_excel(writer, 'Summary', index=False, header=False): column 1 of
\* the sheet holds the category of each row of the summary
ToExcelColumn1(summary_df) ==
    [i \in DOMAIN summary_df |-> CellStr(summary_df[i].category)]

\* output_summary_in_excel: the summary sheet; an empty summary is logged,
\* any other is written and its first column merged over worksheet.max_row rows
OutputSummaryInExcel ==
    /\ pc = "output_summary_in_excel"
    /\ LET summary_df == writer_calls[Len(writer_calls)].summary_df
       IN  IF summary_df # <<>>
           THEN /\ ws' = ToExcelColumn1(summary_df)
                /\ dict_from' = <<>>
                /\ merged_cells' = <<>>
                /\ alignment' = {}
                /\ pos' = 1
                /\ pc' = "merge_record"
                /\ log' = log
           ELSE /\ log' = Append(log, "summary is empty")
                /\ pc' = "returned"
                /\ UNCHANGED <<pos, ws, dict_from, merged_cells, alignment>>
    /\ UNCHANGED <<file, doc, raw_data_df, sb_rules, parse_result, summary, aggregate_calls,
                   writer_calls>>

\* merge_column_in_excel, the first loop (for row_index in range(1, row + 1)):
\* record the row index (start, end) of each content
MergeRecord ==
    /\ pc = "merge_record"
    /\ IF pos <= Len(ws)
       THEN /\ dict_from' = RecordRow(dict_from, Str(ws[pos]), pos)
            /\ pos' = pos + 1
            /\ pc' = pc
       ELSE /\ pc' = "merge_cells"
            /\ pos' = 1
            /\ dict_from' = dict_from
    /\ UNCHANGED <<file, doc, raw_data_df, sb_rules, parse_result, summary, aggregate_calls,
                   writer_calls, log, ws, merged_cells, alignment>>

\* merge_column_in_excel, the second loop (for value in dict_from.values()):
\* merge the cells of each entry whose start and end differ
MergeCells ==
    /\ pc = "merge_cells"
    /\ IF pos <= Len(dict_from)
       THEN /\ merged_cells' =
                  IF dict_from[pos].start_row # dict_from[pos].end_row
                  THEN Append(merged_cells, [start_row |-> dict_from[pos].start_row,
                                             end_row |-> dict_from[pos].end_row])
                  ELSE merged_cells
            /\ pos' = pos + 1
            /\ pc' = pc
       ELSE /\ pc' = "align_center"
            /\ pos' = 1
            /\ merged_cells' = merged_cells
    /\ UNCHANGED <<file, doc, raw_data_df, sb_rules, parse_result, summary, aggregate_calls,
                   writer_calls, log, ws, dict_from, alignment>>

\* merge_column_in_excel, the third loop: align center the cells of rows 1..row
AlignCenter ==
    /\ pc = "align_center"
    /\ alignment' = 1..Len(ws)
    /\ pc' = "returned"
    /\ UNCHANGED <<file, doc, pos, raw_data_df, sb_rules, parse_result, summary,
                   aggregate_calls, writer_calls, log, ws, dict_from, merged_cells>>

----------------------------------------------------------------------------
(* The inputs of run.                                                      *)

Line(obj) == [parsable |-> TRUE, obj |-> obj]
BadLine == [parsable |-> FALSE, obj |-> <<>>]

\* {"node": 1, "a:0": 1, "a:1": 5, "b": 1}
Obj1 == (sNode :> <<1>>) @@ (cA0 :> <<1>>) @@ (cA1 :> <<5>>) @@ (cB :> <<1>>)
\* {"node": 2, "a:0": 5, "a:1": 1, "b": null}
Obj2 == (sNode :> <<2>>) @@ (cA0 :> <<5>>) @@ (cA1 :> <<1>>) @@ (cB :> NaN)
\* {"a:0": 1}: a record without node
Obj3 == (cA0 :> <<1>>)

LineChoices == {Line(Obj1), Line(Obj2), Line(Obj3), BadLine}

MissingFile == [exists |-> FALSE, lines |-> <<>>]
Files == {MissingFile} \cup {[exists |-> TRUE, lines |-> l] : l \in SeqUpTo(LineChoices, MaxLines)}
\* two nodes; column b has a number
StdFile == [exists |-> TRUE, lines |-> <<Line(Obj1), Line(Obj2)>>]
\* one node; column b has no number
NullFile == [exists |-> TRUE, lines |-> <<Line(Obj2)>>]

AllKeys == {"categories", "metrics", "statistics", "aggregate"}

Rule(keys, categories, metrics, statistics, aggregate) ==
    [keys |-> keys, categories |-> categories, metrics |-> metrics,
     statistics |-> statistics, aggregate |-> aggregate]

sP5 == <<"p", "5">>
sP05 == <<"p", "0", "5">>

\* categories A, metrics [a], statistics [mean]
BaseRule == Rule(AllKeys \ {"aggregate"}, "A", <<<<"a">>>>, VList(<<VStr(sMean)>>), VNone)

RuleChoices ==
    { BaseRule,
      \* a single statistic, a percentile of b
      Rule(AllKeys \ {"aggregate"}, "A", <<cB>>, VStr(sP5), VNone),
      \* aggregated by rank
      Rule(AllKeys, "B", <<<<"a">>>>, VList(<<VStr(sMax), VStr(sMean)>>), VBool(TRUE)),
      \* aggregated by the pattern (a)
      Rule(AllKeys, "B", <<<<"a">>, cB>>, VStr(sCount), VStr(<<"(", "a", ")">>)),
      \* lacks statistics, metrics, categories
      Rule({"categories", "metrics"}, "A", <<<<"a">>>>, VNone, VNone),
      Rule({"categories", "statistics"}, "A", <<>>, VStr(sMean), VNone),
      Rule({"metrics", "statistics"}, "", <<cB>>, VStr(sMean), VNone),
      \* matches no column
      Rule(AllKeys \ {"aggregate"}, "B", <<<<"x">>>>, VStr(sMean), VNone),
      \* the statistic named percentile
      Rule(AllKeys \ {"aggregate"}, "B", <<cB>>, VStr(sPercentile), VNone) }

Doc(rules) == [present |-> TRUE, rules |-> rules]
NoDoc == [present |-> FALSE, rules |-> <<>>]

\* the values of aggregate: absent (no key), null, booleans, strings
PatternChars == {"(", ")", "\\", "a"}
AggregateValues ==
    {VNone, VBool(TRUE), VBool(FALSE)} \cup {VStr(p) : p \in SeqUpTo(PatternChars, MaxPatternLen)}

\* the values of statistics: null, one name, a list of names (or of null)
StatisticItems ==
    {VStr(sMean), VStr(sMax), VStr(sP5), VStr(sP05), VStr(<<"p">>), VStr(sPercentile),
     VStr(<<"x">>), VNone}
StatisticsValues ==
    {VNone} \cup StatisticItems \cup {VList(l) : l \in SeqUpTo(StatisticItems, MaxStatistics)}

\* every file with one rule set; every rule set of the choices with two files;
\* every aggregate and every statistics in a rule of its own
Inputs ==
    {[file |-> f, doc |-> d] : f \in Files, d \in {Doc(<<BaseRule>>)}}
    \cup {[file |-> f, doc |-> d] : f \in {StdFile, NullFile},
              d \in {NoDoc} \cup {Doc(rs) : rs \in SeqUpTo(RuleChoices, MaxRules)}}
    \cup {[file |-> StdFile, doc |-> Doc(<<Rule(keys, "A", <<<<"a">>>>, VStr(sMean), a)>>)] :
              keys \in {AllKeys, AllKeys \ {"aggregate"}}, a \in AggregateValues}
    \cup {[file |-> StdFile, doc |-> Doc(<<Rule(keys, "A", m, st, VBool(TRUE))>>)] :
              keys \in {AllKeys, AllKeys \ {"aggregate"}, AllKeys \ {"statistics"}},
              m \in {<<<<"a">>>>, <<<<"a">>, cB>>}, st \in StatisticsValues}

Init ==
    /\ \E input \in Inputs : file = input.file /\ doc = input.doc
    /\ pc = "read"
    /\ pos = 1
    /\ raw_data_df = EmptyDataFrame
    /\ sb_rules = <<>>
    /\ parse_result = FALSE
    /\ summary = <<>>
    /\ aggregate_calls = <<>>
    /\ writer_calls = <<>>
    /\ log = <<>>
    /\ ws = <<>>
    /\ dict_from = <<>>
    /\ merged_cells = <<>>
    /\ alignment = {}

Next ==
    \/ ReadOpen
    \/ ReadLine
    \/ ReadPromote
    \/ Preprocess
    \/ ParseRulesBegin
    \/ ParseRule
    \/ ParseRulesReturn
    \/ RunAfterParse
    \/ GenerateRule
    \/ GenerateReturn
    \/ Output
    \/ OutputSummaryInExcel
    \/ MergeRecord
    \/ MergeCells
    \/ AlignCenter

Spec == Init /\ [][Next]_vars

\* the cell values of a column given to merge_column_in_excel
CellValues == {CellStr("A"), CellStr("B"), CellStr("1"), CellInt(1)}

\* merge_column_in_excel(ws, row, column) called on a worksheet whose column
\* holds any values in rows 1..row
InitMergeColumn ==
    /\ ws \in SeqUpTo(CellValues, MaxRow)
    /\ dict_from = <<>>
    /\ merged_cells = <<>>
    /\ alignment = {}
    /\ pc = "merge_record"
    /\ pos = 1
    /\ file = MissingFile
    /\ doc = NoDoc
    /\ raw_data_df = EmptyDataFrame
    /\ sb_rules = <<>>
    /\ parse_result = FALSE
    /\ summary = <<>>
    /\ aggregate_calls = <<>>
    /\ writer_calls = <<>>
    /\ log = <<>>

NextMergeColumn ==
    \/ MergeRecord
    \/ MergeCells
    \/ AlignCenter

SpecMergeColumn == InitMergeColumn /\ [][NextMergeColumn]_vars

----------------------------------------------------------------------------
(* Properties.                                                             *)

\* the rules _generate_summary has processed without an exception
Processed ==
    CASE pc = "generate" -> 1..(pos - 1)
      [] pc = "output" -> DOMAIN sb_rules
      [] OTHER -> {}

\* the lines _generate_summary computes for a rule of self._sb_rules
LinesOfRule(rule) ==
    FormatSummaryOfRule(rule.categories,
        SummaryDfOfRule(rule.statistics,
                        Aggregated(rule, Project(raw_data_df, rule.metrics))))

\* the lines of category c in the summary (none when the summary has no such key)
LinesOfCategory(c) ==
    IF \E k \in DOMAIN summary : summary[k].category = c
    THEN summary[CHOOSE k \in DOMAIN summary : summary[k].category = c].lines
    ELSE <<>>

RECURSIVE ConcatLines(_, _)
\* the lines of the rules 1..n that have category c, in the order of the rules
ConcatLines(c, n) ==
    IF n = 0 THEN <<>>
    ELSE ConcatLines(c, n - 1)
         \o (IF sb_rules[n].categories = c THEN LinesOfRule(sb_rules[n]) ELSE <<>>)

\* C1: when _generate_summary has processed all rules, the lines of every
\* category are the lines of all rules of that category, one rule after the
\* other in the order of the rules; no rule's lines are dropped or replaced.
C1_CategoriesConcatenate ==
    pc = "output" =>
        \A n \in DOMAIN sb_rules :
            LinesOfCategory(sb_rules[n].categories)
                = ConcatLines(sb_rules[n].categories, Len(sb_rules))

\* C2: if any rule of the rule document fails _check_rules, whatever its
\* position, _parse_rules does not return True, _generate_summary is never
\* entered and no writer is called: nothing is computed.
C2_InvalidRuleComputesNothing ==
    (\E i \in DOMAIN doc.rules : ~CheckRulesOk(doc.rules[i])) =>
        /\ ~parse_result
        /\ pc \notin {"generate", "output"}
        /\ summary = <<>>
        /\ aggregate_calls = <<>>
        /\ writer_calls = <<>>

\* run has returned after _parse_rules accepted the first rule and rejected the second
C2_Witness ==
    /\ pc = "returned"
    /\ Len(doc.rules) = 2
    /\ CheckRulesOk(doc.rules[1])
    /\ ~CheckRulesOk(doc.rules[2])
    /\ Len(sb_rules) = 1
    /\ log = <<"parse rules failed">>

\* C3: _generate_summary never calls the aggregation with a pattern that has
\* no capture group, because _check_rules rejects every aggregate string
\* without one, strings whose parentheses are escaped included.
C3_PatternHasCaptureGroup ==
    \A k \in DOMAIN aggregate_calls :
        aggregate_calls[k].mode = "pattern" => HasCaptureGroup(aggregate_calls[k].pattern)

\* rule i has metrics that match no column of the raw data
NoMatchingMetrics(i) ==
    /\ "metrics" \in doc.rules[i].keys
    /\ GetMetrics(doc.rules[i], raw_data_df.columns) = {}

C5_AtLeastOneStatistic ==
    parse_result => \A n \in DOMAIN sb_rules : Len(sb_rules[n].statistics) >= 1

\* the names of a list of statistics, each once, in the order of first occurrence
DistinctNames(statistics) ==
    LET first == {i \in DOMAIN statistics :
                     \A j \in 1..(i - 1) : statistics[j].s # statistics[i].s}
        Nth[n \in 0..Len(statistics)] ==
            IF n = 0 THEN 0
            ELSE CHOOSE i \in first : i > Nth[n - 1] /\ \A j \in first : j > Nth[n - 1] => i <= j
    IN  [n \in 1..Cardinality(first) |-> statistics[Nth[n]].s]

\* the columns of a rule's data after the aggregation
ColumnsOfRule(rule) == Aggregated(rule, Project(raw_data_df, rule.metrics)).columns

\* lines has one line per pair of a metric of cols and a name of names:
\* metric by metric in lexicographic order, within a metric in the order of names
MetricMajor(lines, category, cols, names) ==
    LET n == Len(names)
    IN  /\ Len(lines) = Cardinality(cols) * n
        /\ \A m \in 1..Cardinality(cols) : \A k \in 1..n :
              LET line == lines[(m - 1) * n + k]
              IN  /\ line.category = category
                  /\ line.metric \in cols
                  /\ Cardinality({c \in cols : StrLess(c, line.metric)}) = m - 1
                  /\ line.statistic = names[k]

\* the rule _generate_summary has just stored the lines of
JustGenerated == pc = "generate" /\ pos > 1

\* C6 as claimed: the lines of a rule are one per pair of a column (after the
\* aggregation) and a statistic of the rule's list: metric-major, metrics in
\* lexicographic order, statistics in the order of the list, their number
\* the number of columns times the length of the list.
C6_OneLinePerListedStatistic ==
    JustGenerated =>
        LET rule == sb_rules[pos - 1]
        IN  MetricMajor(LinesOfCategory(rule.categories), rule.categories,
                        ColumnsOfRule(rule),
                        [k \in DOMAIN rule.statistics |-> rule.statistics[k].s])

\* C6 as amended: the lines of a rule are one per pair of a column (after the
\* aggregation) and a distinct statistic name of the rule's list: metric-major,
\* metrics in lexicographic order, names in the order of their first
\* occurrence, their number the number of columns times the number of names.
C6_OneLinePerDistinctStatistic ==
    JustGenerated =>
        LET rule == sb_rules[pos - 1]
        IN  MetricMajor(LinesOfCategory(rule.categories), rule.categories,
                        ColumnsOfRule(rule), DistinctNames(rule.statistics))

\* a rule with two columns after the aggregation and two statistics has four lines
C6_Witness ==
    /\ JustGenerated
    /\ Cardinality(ColumnsOfRule(sb_rules[pos - 1])) = 2
    /\ Len(DistinctNames(sb_rules[pos - 1].statistics)) = 2
    /\ Len(LinesOfCategory(sb_rules[pos - 1].categories)) = 4

\* the calls of data_analysis.aggregate made for rule n
CallsOfRule(n) == SelectSeq(aggregate_calls, LAMBDA call : call.rule = n)

\* C7: the aggregation of a rule follows its aggregate: without the key the
\* stored aggregate is False; absent or False, aggregate is not called and the
\* statistics are those of the projected columns; True, aggregate is called
\* once without a pattern; a string, once with that string as the pattern.
C7_AggregateModeFollowsValue ==
    \A n \in Processed :
        LET rule == doc.rules[n]
            value == rule.aggregate
        IN  /\ "aggregate" \notin rule.keys => sb_rules[n].aggregate = VBool(FALSE)
            /\ IF "aggregate" \notin rule.keys \/ value = VBool(FALSE)
               THEN /\ CallsOfRule(n) = <<>>
                    /\ (pc = "generate" /\ n = pos - 1) =>
                          \A k \in DOMAIN LinesOfCategory(sb_rules[n].categories) :
                              LET line == LinesOfCategory(sb_rules[n].categories)[k]
                              IN  /\ line.metric \in sb_rules[n].metrics
                                  /\ line.value.data = ColumnData(raw_data_df, line.metric)
               ELSE IF value = VBool(TRUE)
               THEN CallsOfRule(n) = <<[rule |-> n, mode |-> "rank", pattern |-> <<>>]>>
               ELSE /\ value.tag = "str"
                    /\ CallsOfRule(n) = <<[rule |-> n, mode |-> "pattern", pattern |-> value.s]>>

\* two rules were processed: one aggregated by rank, one by a pattern
C7_Witness ==
    /\ pc = "output"
    /\ Len(aggregate_calls) = 2
    /\ aggregate_calls[1].mode # aggregate_calls[2].mode

\* the file is malformed: a line cannot be parsed, or it has records and none has a node
Malformed ==
    /\ file.exists
    /\ \/ \E i \in DOMAIN file.lines : ~file.lines[i].parsable
       \/ /\ file.lines # <<>>
          /\ \A i \in DOMAIN file.lines : sNode \notin DOMAIN file.lines[i].obj

\* rows were appended, but node is still a column and not the index
PartiallyLoaded(df) == df.rows # <<>> /\ sNode \in df.columns

\* C8: for a malformed file read_raw_data returns something other than what
\* it returns for a missing file (an empty DataFrame), and not a table with
\* rows appended whose node was never made the index.
C8_MalformedIsSignalled ==
    (pc = "preprocess" /\ Malformed) =>
        /\ raw_data_df # EmptyDataFrame
        /\ ~PartiallyLoaded(raw_data_df)

RECURSIVE LinesBefore(_, _)
\* the number of lines of the categories before category number k
LinesBefore(dict, k) ==
    IF k <= 1 THEN 0 ELSE LinesBefore(dict, k - 1) + Len(dict[k - 1].lines)

\* rows are the lines of dict: category after category, line after line
RowPerLine(rows, dict) ==
    /\ Len(rows) = LinesBefore(dict, Len(dict) + 1)
    /\ \A k \in DOMAIN dict : \A i \in DOMAIN dict[k].lines :
          rows[LinesBefore(dict, k) + i] = dict[k].lines[i]

\* C9: when run writes excel, the table of _merge_summary has one row per
\* line of the summary, in the order of the categories and, within one, of
\* its lines; their number is the sum of the lengths of the lists; and the
\* summary is as it was.
C9_MergeIsRowPerLine ==
    [][(pc = "output" /\ Len(writer_calls') > Len(writer_calls)
            /\ writer_calls'[Len(writer_calls')].writer = "output_summary_in_excel")
        => /\ RowPerLine(writer_calls'[Len(writer_calls')].summary_df, summary)
           /\ summary' = summary]_vars

\* excel was written for a summary of two categories with three lines or more
C9_Witness ==
    /\ pc = "returned"
    /\ Len(summary) = 2
    /\ \E k \in DOMAIN writer_calls :
          /\ writer_calls[k].writer = "output_summary_in_excel"
          /\ Len(writer_calls[k].summary_df) >= 3
          /\ summary[1].lines # <<>>
          /\ summary[2].lines # <<>>

\* the computation of a rule raises: the pattern aggregation, the dispatch of
\* a statistic name, or a reducer on a column
ComputationFails(rule) ==
    \/ /\ AggregateMode(rule.aggregate) = "pattern"
       /\ ~AggregatePatternOk(rule.aggregate.s)
    \/ \E i \in DOMAIN rule.statistics :
          \/ ~Dispatch(rule.statistics[i].s).ok
          \/ \E c \in ColumnsOfRule(rule) :
                ~ReduceOk(Dispatch(rule.statistics[i].s).op,
                          ColumnData(Aggregated(rule, Project(raw_data_df, rule.metrics)), c))

\* C10: when the computation of a rule fails in _generate_summary, the loop
\* does not pass that rule, run does not reach its output and no writer is
\* called: neither a summary of the rules before it nor a default is written.
C10_FailureAbortsRun ==
    \A n \in DOMAIN sb_rules :
        (parse_result /\ pc \in {"generate", "output", "returned"} /\ ComputationFails(sb_rules[n])) =>
            /\ pc # "output"
            /\ pc = "generate" => pos <= n
            /\ writer_calls = <<>>
            /\ \A k \in DOMAIN summary : \A i \in DOMAIN summary[k].lines :
                  \E m \in 1..(n - 1) : summary[k].lines[i] \in Range(LinesOfRule(sb_rules[m]))

\* run has returned after the second rule failed; the lines of the first were dropped
C10_Witness ==
    /\ pc = "returned"
    /\ Len(sb_rules) = 2
    /\ ~ComputationFails(sb_rules[1])
    /\ ComputationFails(sb_rules[2])
    /\ summary # <<>>
    /\ log = <<"run failed">>

\* C11: _check_rules and _generate_summary classify every statistic the same
\* way: for every statistic of a rule that passed validation, the dispatch of
\* _generate_summary does not fail, it selects the percentile reducer (with
\* the numeric suffix as parameter) exactly when the statistic has the form
\* p<d>/p<dd>, and otherwise it selects the reducer the statistic names.
C11_ValidatedStatisticDispatches ==
    parse_result =>
        \A n \in DOMAIN sb_rules : \A i \in DOMAIN sb_rules[n].statistics :
            LET statistic_name == sb_rules[n].statistics[i].s
                dispatched == Dispatch(statistic_name)
            IN  /\ dispatched.ok
                /\ IF FullMatchPercentile(statistic_name)
                   THEN /\ dispatched.op = sPercentile
                        /\ dispatched.val = IntOf(SubSeq(statistic_name, 2, Len(statistic_name)))
                   ELSE dispatched.op = statistic_name

\* C12: merge_column_in_excel merges only continuous runs of equal content:
\* every range given to ws.merge_cells has more than one row, and all the
\* cells of the column within it have the same string value, also when a
\* value occurs in two runs with rows of another value between them.
C12_MergedRangeHasOneContent ==
    \A k \in DOMAIN merged_cells :
        /\ merged_cells[k].start_row < merged_cells[k].end_row
        /\ \A row_index \in merged_cells[k].start_row..merged_cells[k].end_row :
              Str(ws[row_index]) = Str(ws[merged_cells[k].start_row])

============================================================================
